---- MODULE Spec2Model ----
(***************************************************************************)
(* Model of cidermill's server.py: a pool of slots, each of which runs one *)
(* tart VM lifecycle after the other (provision, run VM and agent session  *)
(* side by side, delete), with exponential backoff after a failed          *)
(* lifecycle and a signal handler that cancels the whole pool.             *)
(*                                                                         *)
(* One action is the code a task runs between two suspension points of     *)
(* the trio scheduler.  trio.run_process is modelled by its contract:      *)
(* with check=True (the default) a non-zero exit status raises             *)
(* CalledProcessError, and a cancelled call kills the child process and    *)
(* returns only once it is gone.                                           *)
(***************************************************************************)
EXTENDS Integers, FiniteSets, Sequences, TLC

\* ---- program constants ------------------------------------------------
NumVms == 2            \* config["num_vms"]
IpRetries == 4         \* get_tart_ip(runner_name, 4)
CleanupDeadline == 5   \* trio.current_time() + 5
BackoffBase == 2       \* 2 ** retries

\* ---- bounds of the model ----------------------------------------------
MaxRetries == 3        \* a slot fails at most this many times in a row
MaxStream == 3         \* bytes an agent writes to its stdout, at most
NumTokens == 2         \* distinct token values the credential source returns
NumNames == 2          \* distinct values of the random suffix of a VM name

Slots == 1..NumVms
RC == {0, 1}           \* exit status of a child process: zero / non-zero
NoTok == 0
Tokens == 1..NumTokens
NoName == 0
Names == 1..NumNames

VARIABLES
    proc,          \* "startup", "running", "failed" (exit 1), "terminated"
    signalled,     \* signal_handler has received SIGINT or SIGTERM
    rootCancelled, \* the cancel scope of main's nursery is cancelled
    pc,            \* per slot: where keep_one_runner_running / runner is
    retries,       \* per slot: the local variable retries
    delay,         \* per slot: argument of the trio.sleep in progress
    vmt,           \* per slot: run_vm_then_cancel task
    sess,          \* per slot: run_runner_then_cancel task
    attempts,      \* per slot: get_tart_ip's attempts
    inner,         \* per slot: runner's nursery.cancel_scope is cancelled
    exc,           \* per slot: exception collected by runner's nursery
    pend,          \* per slot: exception in flight when finally was entered
    clock,         \* per slot: time units since cleanup started
    etok,          \* per slot: endpoint_token held by the session
    rtok,          \* per slot: registration token held by the session
    created,       \* per slot: tart clone of this lifecycle returned 0
    deletes,       \* per slot: tart delete invocations of this lifecycle
    term,          \* per slot: how the cleanup of this lifecycle ended
    last,          \* per slot: how this lifecycle left runner(); "none": not yet
    fails,         \* per slot: lifecycles that ended in an error, in a row
    logged,        \* per slot: token values the running session passed to log()
    first,         \* per slot: why the first subtask of this lifecycle exited
    tartFound,     \* environment: the tart executable is on PATH
    payloadPresent,\* environment: actions-runner.tar.gz is a file in BASE_DIR
    stream,        \* per instance: the bytes the agent writes to its stdout
    pos,           \* per instance: bytes log_output has read so far
    buf,           \* per instance: bytes held back by the incremental decoder
    sink,          \* the characters written to the process's stdout by log()
    runnerName,    \* per slot: runner_name of the lifecycle in progress
    cmd,           \* per slot: the tart command the lifecycle is at
    store,         \* names of the VMs that exist in tart's local storage
    shared         \* per slot: the clone went to a name that already existed

vars == <<proc, signalled, rootCancelled, pc, retries, delay, vmt, sess,
          attempts, inner, exc, pend, clock, etok, rtok, created, deletes,
          term, last, fails, logged, first, tartFound, payloadPresent,
          stream, pos, buf, sink, runnerName, cmd, store, shared>>

topVars == <<proc, signalled, rootCancelled>>
taskVars == <<vmt, sess, attempts, inner, exc, etok, rtok, logged, first>>
restVars == <<attempts, exc, etok, rtok, logged, first>>
cleanVars == <<pend, clock, deletes, term>>
loopVars == <<pc, retries, delay, last, fails>>
logVars == <<stream, pos, buf, sink>>
nameVars == <<runnerName, cmd, store, shared>>
sideVars == <<tartFound, payloadPresent, logVars, nameVars>>
poolVars == <<topVars, taskVars, cleanVars, loopVars, created>>

\* The pool before startup_checks has run.
PoolInit ==
    /\ proc = "startup"
    /\ signalled = FALSE
    /\ rootCancelled = FALSE
    /\ pc = [s \in Slots |-> "unstarted"]
    /\ retries = [s \in Slots |-> 0]
    /\ delay = [s \in Slots |-> 0]
    /\ vmt = [s \in Slots |-> "none"]
    /\ sess = [s \in Slots |-> "none"]
    /\ attempts = [s \in Slots |-> 0]
    /\ inner = [s \in Slots |-> FALSE]
    /\ exc = [s \in Slots |-> "none"]
    /\ pend = [s \in Slots |-> "none"]
    /\ clock = [s \in Slots |-> 0]
    /\ etok = [s \in Slots |-> NoTok]
    /\ rtok = [s \in Slots |-> NoTok]
    /\ created = [s \in Slots |-> FALSE]
    /\ deletes = [s \in Slots |-> 0]
    /\ term = [s \in Slots |-> "none"]
    /\ last = [s \in Slots |-> "none"]
    /\ fails = [s \in Slots |-> 0]
    /\ logged = [s \in Slots |-> {}]
    /\ first = [s \in Slots |-> "none"]

\* No agent has written anything.
LogIdle ==
    /\ stream = [i \in Slots |-> <<>>]
    /\ pos = [i \in Slots |-> 0]
    /\ buf = [i \in Slots |-> <<>>]
    /\ sink = <<>>

\* No VM exists and no lifecycle has chosen a name.
NameIdle ==
    /\ runnerName = [s \in Slots |-> NoName]
    /\ cmd = [s \in Slots |-> "none"]
    /\ store = {}
    /\ shared = [s \in Slots |-> FALSE]

Init ==
    /\ PoolInit
    /\ tartFound \in BOOLEAN
    /\ payloadPresent \in BOOLEAN
    /\ LogIdle
    /\ NameIdle

\* ---- helpers -----------------------------------------------------------

\* Variant: run_process as if check defaulted to False.
RunProcessUnchecked(rc, check) == "completed"

\* Variant: run_process as if check=False were ignored.
RunProcessAlwaysChecked(rc, check) ==
    IF rc # 0 THEN "CalledProcessError" ELSE "completed"

\* trio.run_process: with check a non-zero status raises CalledProcessError,
\* otherwise the CompletedProcess is returned whatever its status.
RunProcess(rc, check) ==
    IF check /\ rc # 0 THEN "CalledProcessError" ELSE "completed"

\* 2 ** retries
BackoffDelay(r) == BackoffBase ^ r

\* Variant: the slot task never sees the cancellation of main's nursery.
SlotNeverCancelled(s) == FALSE

\* Cancellation as seen by the task of slot s outside any shield: only the
\* scope of main's nursery encloses keep_one_runner_running.
SlotCancelled(s) == rootCancelled

\* Variant: the subtasks do not see the cancellation of main's nursery.
SubtaskCancelledInnerOnly(s) == inner[s]

\* Cancellation as seen by the two subtasks of runner's nursery.
SubtaskCancelled(s) == inner[s] \/ rootCancelled

\* Variant: the cleanup scope without shield=True.
CleanupCancelledUnshielded(s) == rootCancelled \/ clock[s] >= CleanupDeadline

\* Cancellation as seen inside CancelScope(deadline=now+5, shield=True):
\* outer scopes are shielded off, only the scope's own deadline counts.
CleanupCancelled(s) == clock[s] >= CleanupDeadline

\* Variant: no except clause around runner().
CaughtNothing(e) == FALSE

\* "except Exception": Cancelled, SystemExit and groups holding them are
\* BaseExceptions and pass through.
CaughtAsException(e) == e = "error"

\* Variant: the nursery block is left as soon as one child has exited.
NurseryJoinedAny(s) == vmt[s] = "done" \/ sess[s] = "done"

\* __aexit__ of runner's nursery returns once every child task has exited.
NurseryJoined(s) == vmt[s] = "done" /\ sess[s] = "done"

\* Variant: main's nursery is left as soon as one slot task has exited.
MainNurseryAnyExited(ps) == \E s \in Slots : ps[s] = "exited"

\* __aexit__ of main's nursery: every keep_one_runner_running has exited.
MainNurseryJoined(ps) == \A s \in Slots : ps[s] = "exited"

\* Variant: a subtask exits without cancelling the scope.
NoCancelAfterExit(wasCancelled) == wasCancelled

\* "finally: cancel_scope.cancel()" of either subtask.
CancelAfterExit(wasCancelled) == TRUE

\* What leaves the nursery block: the cancel scope of the nursery swallows
\* the Cancelled it caused unless an enclosing scope is cancelled as well.
NurseryOutcome(collected, outerCancelled) ==
    IF outerCancelled THEN "cancel" ELSE collected

\* Variant: the cleanup deadline raises (fail_after instead of a bare scope).
FinallyOutcomeEscalating(inFlight, how, rc) ==
    IF how = "timeout" \/ rc # 0 THEN "error" ELSE inFlight

\* Variant: "tart delete" run with check=False.
FinallyOutcomeIgnoringStatus(inFlight, how, rc) == inFlight

\* What leaves the finally block of runner: a failed delete replaces the
\* exception in flight, a deadline expiry is swallowed by the scope.
FinallyOutcome(inFlight, how, rc) ==
    IF how = "returned" /\ RunProcess(rc, TRUE) = "CalledProcessError"
    THEN "error" ELSE inFlight

\* Variant: retries is not reset after a lifecycle that returned.
RetriesNeverReset(r, e) == IF e = "none" THEN r ELSE r + 1

\* retries after one pass of the while loop that left runner() with e.
RetriesAfter(r, e) == IF e = "none" THEN 0 ELSE r + 1

\* Variant: retries as one variable shared by all slot tasks.
SetRetriesShared(rs, s, v) == [u \in Slots |-> v]

\* "retries = 0" is a local of keep_one_runner_running: assigning it in the
\* task of slot s leaves the retries of the other tasks alone.
SetRetries(rs, s, v) == [rs EXCEPT ![s] = v]

\* One pass of "try: await runner(config) ... except Exception" for an
\* exception e ("none": runner returned) leaving runner() in slot s, up to
\* the next suspension point.  An exception other than Cancelled that
\* leaves the task cancels main's nursery.  The nursery of the lifecycle
\* and its tasks are gone.
EndLifecycle(s, e) ==
    /\ vmt' = [vmt EXCEPT ![s] = "none"]
    /\ sess' = [sess EXCEPT ![s] = "none"]
    /\ inner' = [inner EXCEPT ![s] = FALSE]
    /\ last' = [last EXCEPT ![s] = IF e = "none" THEN "ok" ELSE e]
    /\ fails' = [fails EXCEPT ![s] =
                    IF e = "none" THEN 0 ELSE IF e = "error" THEN @ + 1 ELSE @]
    /\ IF e = "none"
       THEN /\ retries' = SetRetries(retries, s, RetriesAfter(retries[s], e))
            /\ delay' = delay
            /\ pc' = [pc EXCEPT ![s] = "loop"]
            /\ rootCancelled' = rootCancelled
       ELSE IF CaughtAsException(e)
       THEN /\ retries' = SetRetries(retries, s, RetriesAfter(retries[s], e))
            /\ IF SlotCancelled(s)
               THEN /\ pc' = [pc EXCEPT ![s] = "exited"]
                    /\ delay' = delay
               ELSE /\ pc' = [pc EXCEPT ![s] = "sleep"]
                    /\ delay' = [delay EXCEPT ![s] =
                                    BackoffDelay(retries'[s])]
            /\ rootCancelled' = rootCancelled
       ELSE /\ retries' = retries
            /\ delay' = delay
            /\ pc' = [pc EXCEPT ![s] = "exited"]
            /\ rootCancelled' = (rootCancelled \/ e # "cancel")

\* ---- startup -----------------------------------------------------------

\* Variant: startup_checks without the test for actions-runner.tar.gz.
StartupChecksTartOnly(tf, pp) == tf

\* startup_checks returns (instead of sys.exit(1)) iff "tart --version" can
\* be run and actions-runner.tar.gz is a file.
StartupChecks(tf, pp) == tf /\ pp

\* startup_checks passes; main's nursery starts the signal handler and
\* num_vms slot tasks.
StartupOk ==
    /\ UNCHANGED sideVars
    /\ proc = "startup"
    /\ StartupChecks(tartFound, payloadPresent)
    /\ proc' = "running"
    /\ pc' = [s \in Slots |-> "loop"]
    /\ UNCHANGED <<signalled, rootCancelled, retries, delay, last, fails>>
    /\ UNCHANGED <<taskVars, cleanVars, created>>

\* tart is not found or actions-runner.tar.gz is missing: sys.exit(1).
StartupFail ==
    /\ UNCHANGED sideVars
    /\ proc = "startup"
    /\ ~StartupChecks(tartFound, payloadPresent)
    /\ proc' = "failed"
    /\ UNCHANGED <<signalled, rootCancelled, loopVars, taskVars, cleanVars,
                   created>>

\* ---- provisioning ------------------------------------------------------

\* Top of the while loop: runner -> provision_tart_vm -> run_process of
\* "tart clone".  run_process checks for cancellation before it spawns.
StartLifecycle(s) ==
    /\ UNCHANGED sideVars
    /\ proc = "running"
    /\ pc[s] = "loop"
    /\ created' = [created EXCEPT ![s] = FALSE]
    /\ deletes' = [deletes EXCEPT ![s] = 0]
    /\ term' = [term EXCEPT ![s] = "none"]
    /\ pend' = [pend EXCEPT ![s] = "none"]
    /\ last' = [last EXCEPT ![s] = "none"]
    /\ first' = [first EXCEPT ![s] = "none"]
    /\ pc' = [pc EXCEPT ![s] = IF SlotCancelled(s) THEN "exited" ELSE "clone"]
    /\ UNCHANGED <<topVars, retries, delay, fails, clock>>
    /\ UNCHANGED <<vmt, sess, attempts, inner, exc, etok, rtok, logged>>

\* "tart clone" exits with status rc; on success provision_tart_vm goes on
\* to run_process of "tart set".
CloneReturns(s, rc) ==
    /\ UNCHANGED sideVars
    /\ pc[s] = "clone"
    /\ rc # 0 => retries[s] < MaxRetries
    /\ UNCHANGED <<proc, signalled, restVars, cleanVars>>
    /\ IF RunProcess(rc, TRUE) = "CalledProcessError"
       THEN /\ created' = created
            /\ EndLifecycle(s, "error")
       ELSE IF rc # 0
       THEN /\ created' = created
            /\ EndLifecycle(s, "SystemExit")
       ELSE /\ created' = [created EXCEPT ![s] = TRUE]
            /\ pc' = [pc EXCEPT ![s] = "set"]
            /\ UNCHANGED <<rootCancelled, retries, delay, last, fails,
                           vmt, sess, inner>>

\* The slot is cancelled while "tart clone" runs: the child is killed.
CloneCancelled(s) ==
    /\ UNCHANGED sideVars
    /\ pc[s] = "clone"
    /\ SlotCancelled(s)
    /\ EndLifecycle(s, "cancel")
    /\ UNCHANGED <<proc, signalled, restVars, cleanVars, created>>

\* "tart set" exits with status rc; on success runner opens its nursery and
\* both subtasks start their first child process.
SetReturns(s, rc) ==
    /\ UNCHANGED sideVars
    /\ pc[s] = "set"
    /\ rc # 0 => retries[s] < MaxRetries
    /\ UNCHANGED <<proc, signalled, cleanVars, created, etok, rtok, logged,
                   first>>
    /\ IF RunProcess(rc, TRUE) = "CalledProcessError"
       THEN /\ EndLifecycle(s, "error")
            /\ UNCHANGED <<attempts, exc>>
       ELSE IF rc # 0
       THEN /\ EndLifecycle(s, "SystemExit")
            /\ UNCHANGED <<attempts, exc>>
       ELSE /\ pc' = [pc EXCEPT ![s] = "nursery"]
            /\ vmt' = [vmt EXCEPT ![s] = "run"]
            /\ sess' = [sess EXCEPT ![s] = "ip"]
            /\ attempts' = [attempts EXCEPT ![s] = 0]
            /\ inner' = [inner EXCEPT ![s] = FALSE]
            /\ exc' = [exc EXCEPT ![s] = "none"]
            /\ UNCHANGED <<rootCancelled, retries, delay, last, fails>>

\* The slot is cancelled before "tart set" is spawned or while it runs.
SetCancelled(s) ==
    /\ UNCHANGED sideVars
    /\ pc[s] = "set"
    /\ SlotCancelled(s)
    /\ EndLifecycle(s, "cancel")
    /\ UNCHANGED <<proc, signalled, restVars, cleanVars, created>>

\* ---- the two subtasks of runner's nursery -------------------------------

\* run_vm_then_cancel: "tart run" is killed because the task was cancelled,
\* or exits by itself with status rc (check=False: any status is a normal
\* return); either way the finally clause cancels the nursery's scope.
VmTaskExits(s, rc) ==
    /\ UNCHANGED sideVars
    /\ vmt[s] = "run"
    /\ vmt' = [vmt EXCEPT ![s] = "done"]
    /\ inner' = [inner EXCEPT ![s] = CancelAfterExit(@)]
    /\ IF ~SubtaskCancelled(s) /\ RunProcess(rc, FALSE) = "CalledProcessError"
       THEN /\ retries[s] < MaxRetries
            /\ exc' = [exc EXCEPT ![s] = "error"]
       ELSE exc' = exc
    /\ first' = [first EXCEPT ![s] =
                    IF @ # "none" THEN @
                    ELSE IF SubtaskCancelled(s) THEN "cancel"
                    ELSE IF sess[s] = "agent" THEN "vm" ELSE "vmEarly"]
    /\ UNCHANGED <<topVars, loopVars, cleanVars, created>>
    /\ UNCHANGED <<sess, attempts, etok, rtok, logged>>

\* Lines passed to log() by get_registration_token.
RequestLine ==
    [msg |-> "Requesting new runner registration-token to github ...",
     tok |-> NoTok]
TokenLine(t) == [msg |-> "New registration token is", tok |-> t]

\* Token values readable from a set of log lines.
SecretsIn(lines) == {l.tok : l \in lines} \ {NoTok}

\* run_runner_then_cancel leaves its try block with an exception.
SessionRaises(s) ==
    /\ sess' = [sess EXCEPT ![s] = "done"]
    /\ exc' = [exc EXCEPT ![s] = "error"]
    /\ inner' = [inner EXCEPT ![s] = CancelAfterExit(@)]
    /\ attempts' = [attempts EXCEPT ![s] = 0]
    /\ etok' = [etok EXCEPT ![s] = NoTok]
    /\ rtok' = [rtok EXCEPT ![s] = NoTok]
    /\ logged' = [logged EXCEPT ![s] = {}]
    /\ first' = [first EXCEPT ![s] =
                    IF @ # "none" THEN @
                    ELSE IF sess[s] = "ip" THEN "ip" ELSE "step"]

\* run_runner_then_cancel leaves its try block without an exception of its
\* own (normal return or Cancelled).
SessionEnds(s) ==
    /\ sess' = [sess EXCEPT ![s] = "done"]
    /\ inner' = [inner EXCEPT ![s] = CancelAfterExit(@)]
    /\ attempts' = [attempts EXCEPT ![s] = 0]
    /\ etok' = [etok EXCEPT ![s] = NoTok]
    /\ rtok' = [rtok EXCEPT ![s] = NoTok]
    /\ logged' = [logged EXCEPT ![s] = {}]
    /\ first' = [first EXCEPT ![s] =
                    IF @ # "none" THEN @
                    ELSE IF SubtaskCancelled(s) THEN "cancel" ELSE "agent"]
    /\ exc' = exc

\* Variant: the token is requested right after the address is known.
NextStepSkippingCopy(step) ==
    CASE step = "ip" -> "token1"
      [] step = "scp" -> "token1"
      [] step = "token1" -> "token2"
      [] step = "token2" -> "agent"

\* The statement order of run_runner_then_cancel (get_registration_token
\* makes two requests): what the session waits for once step has
\* succeeded.
NextStep(step) ==
    CASE step = "ip" -> "scp"
      [] step = "scp" -> "token1"
      [] step = "token1" -> "token2"
      [] step = "token2" -> "agent"

\* Variant: one attempt too many.
IpLoopContinuesOffByOne(a) == a <= IpRetries

\* "while attempts < retries" of get_tart_ip.
IpLoopContinues(a) == a < IpRetries

\* One "tart ip" of get_tart_ip exits with status rc.  A failed attempt is
\* counted; when the loop runs out, result was never bound and the return
\* statement raises UnboundLocalError.
IpAttempt(s, rc) ==
    /\ UNCHANGED sideVars
    /\ sess[s] = "ip"
    /\ ~SubtaskCancelled(s)
    /\ UNCHANGED <<topVars, loopVars, cleanVars, created, vmt>>
    /\ IF RunProcess(rc, TRUE) = "CalledProcessError"
       THEN IF IpLoopContinues(attempts[s] + 1)
            THEN /\ attempts' = [attempts EXCEPT ![s] = @ + 1]
                 /\ UNCHANGED <<sess, exc, inner, etok, rtok, logged, first>>
            ELSE /\ retries[s] < MaxRetries
                 /\ SessionRaises(s)
       ELSE /\ sess' = [sess EXCEPT ![s] = NextStep("ip")]
            /\ attempts' = [attempts EXCEPT ![s] = 0]
            /\ UNCHANGED <<exc, inner, etok, rtok, logged, first>>

\* scp exits with status rc; on success get_registration_token logs its
\* first line and sends the first POST.
ScpReturns(s, rc) ==
    /\ UNCHANGED sideVars
    /\ sess[s] = "scp"
    /\ ~SubtaskCancelled(s)
    /\ rc # 0 => retries[s] < MaxRetries
    /\ UNCHANGED <<topVars, loopVars, cleanVars, created, vmt>>
    /\ IF RunProcess(rc, TRUE) = "CalledProcessError"
       THEN SessionRaises(s)
       ELSE /\ sess' = [sess EXCEPT ![s] = NextStep("scp")]
            /\ logged' = [logged EXCEPT ![s] = @ \cup SecretsIn({RequestLine})]
            /\ UNCHANGED <<attempts, exc, inner, etok, rtok, first>>

\* The access_tokens POST answers: with a token t, or with something that
\* has no "token" field (or the request itself fails).
ExchangeAnswers(s, ok, t) ==
    /\ UNCHANGED sideVars
    /\ sess[s] = "token1"
    /\ ~SubtaskCancelled(s)
    /\ ~ok => retries[s] < MaxRetries
    /\ UNCHANGED <<topVars, loopVars, cleanVars, created, vmt>>
    /\ IF ok
       THEN /\ etok' = [etok EXCEPT ![s] = t]
            /\ sess' = [sess EXCEPT ![s] = NextStep("token1")]
            /\ UNCHANGED <<attempts, exc, inner, rtok, logged, first>>
       ELSE SessionRaises(s)

\* The registration-token POST answers; on success the token is logged and
\* returned (endpoint_token goes out of scope), and the ssh process of the
\* agent is started with it.
RegistrationAnswers(s, ok, t) ==
    /\ UNCHANGED sideVars
    /\ sess[s] = "token2"
    /\ ~SubtaskCancelled(s)
    /\ ~ok => retries[s] < MaxRetries
    /\ UNCHANGED <<topVars, loopVars, cleanVars, created, vmt>>
    /\ IF ok
       THEN /\ rtok' = [rtok EXCEPT ![s] = t]
            /\ etok' = [etok EXCEPT ![s] = NoTok]
            /\ logged' = [logged EXCEPT ![s] = @ \cup SecretsIn({TokenLine(t)})]
            /\ sess' = [sess EXCEPT ![s] = NextStep("token2")]
            /\ UNCHANGED <<attempts, exc, inner, first>>
       ELSE SessionRaises(s)

\* The ssh process of the agent exits with status rc (check=False) and its
\* output ends:
\* the session's own nursery is left without an exception.
AgentExits(s, rc) ==
    /\ UNCHANGED sideVars
    /\ sess[s] = "agent"
    /\ ~SubtaskCancelled(s)
    /\ IF RunProcess(rc, FALSE) = "CalledProcessError"
       THEN retries[s] < MaxRetries /\ SessionRaises(s)
       ELSE SessionEnds(s)
    /\ UNCHANGED <<topVars, loopVars, cleanVars, created, vmt>>

\* The session is cancelled at whatever it is waiting for; the child
\* process, if any, is killed.
SessionCancelled(s) ==
    /\ UNCHANGED sideVars
    /\ sess[s] \in {"ip", "scp", "token1", "token2", "agent"}
    /\ SubtaskCancelled(s)
    /\ SessionEnds(s)
    /\ UNCHANGED <<topVars, loopVars, cleanVars, created, vmt>>

\* ---- cleanup -----------------------------------------------------------

\* The nursery block of runner is left and the finally clause starts
\* "tart delete" inside the shielded scope.
NurseryExit(s) ==
    /\ UNCHANGED sideVars
    /\ pc[s] = "nursery"
    /\ NurseryJoined(s)
    /\ pc' = [pc EXCEPT ![s] = "cleanup"]
    /\ pend' = [pend EXCEPT ![s] = NurseryOutcome(exc[s], rootCancelled)]
    /\ exc' = [exc EXCEPT ![s] = "none"]
    /\ clock' = [clock EXCEPT ![s] = 0]
    /\ deletes' = [deletes EXCEPT ![s] = @ + 1]
    /\ UNCHANGED <<topVars, retries, delay, last, fails, term, created>>
    /\ UNCHANGED <<vmt, sess, attempts, inner, etok, rtok, logged, first>>

\* One time unit passes while "tart delete" runs.
CleanupTick(s) ==
    /\ UNCHANGED sideVars
    /\ pc[s] = "cleanup"
    /\ ~CleanupCancelled(s)
    /\ clock' = [clock EXCEPT ![s] = @ + 1]
    /\ UNCHANGED <<topVars, loopVars, taskVars, pend, deletes, term, created>>

\* "tart delete" exits with status rc.
DeleteReturns(s, rc) ==
    /\ UNCHANGED sideVars
    /\ pc[s] = "cleanup"
    /\ rc # 0 => retries[s] < MaxRetries
    /\ term' = [term EXCEPT ![s] = IF rc = 0 THEN "returned" ELSE "failed"]
    /\ clock' = [clock EXCEPT ![s] = 0]
    /\ EndLifecycle(s, FinallyOutcome(pend[s], "returned", rc))
    /\ UNCHANGED <<proc, signalled, restVars, pend, deletes, created>>

\* The deadline of the cleanup scope expires: "tart delete" is killed and
\* the scope swallows the Cancelled.
DeleteAbandoned(s) ==
    /\ UNCHANGED sideVars
    /\ pc[s] = "cleanup"
    /\ CleanupCancelled(s)
    /\ term' = [term EXCEPT ![s] = "timeout"]
    /\ clock' = [clock EXCEPT ![s] = 0]
    /\ EndLifecycle(s, FinallyOutcome(pend[s], "timeout", 0))
    /\ UNCHANGED <<proc, signalled, restVars, pend, deletes, created>>

\* ---- backoff sleep -----------------------------------------------------

\* trio.sleep(2 ** retries) returns; "continue".
WakeUp(s) ==
    /\ UNCHANGED sideVars
    /\ pc[s] = "sleep"
    /\ ~SlotCancelled(s)
    /\ pc' = [pc EXCEPT ![s] = "loop"]
    /\ delay' = [delay EXCEPT ![s] = 0]
    /\ UNCHANGED <<topVars, retries, last, fails, taskVars, cleanVars,
                   created>>

\* trio.sleep raises Cancelled, which leaves the while loop.
SleepCancelled(s) ==
    /\ UNCHANGED sideVars
    /\ pc[s] = "sleep"
    /\ SlotCancelled(s)
    /\ pc' = [pc EXCEPT ![s] = "exited"]
    /\ UNCHANGED <<topVars, retries, delay, last, fails, taskVars, cleanVars,
                   created>>

\* ---- shutdown ----------------------------------------------------------

\* signal_handler receives SIGINT or SIGTERM and raises SystemExit, which
\* cancels the scope of main's nursery.
Signal ==
    /\ UNCHANGED sideVars
    /\ proc = "running"
    /\ ~signalled
    /\ signalled' = TRUE
    /\ rootCancelled' = TRUE
    /\ UNCHANGED <<proc, loopVars, taskVars, cleanVars, created>>

\* main's nursery is left once all its tasks have exited; trio.run returns.
ProcessExit ==
    /\ UNCHANGED sideVars
    /\ proc = "running"
    /\ rootCancelled
    /\ MainNurseryJoined(pc)
    /\ proc' = "terminated"
    /\ UNCHANGED <<signalled, rootCancelled, loopVars, taskVars, cleanVars,
                   created>>

\* ---- specification -----------------------------------------------------

Next ==
    \/ StartupOk
    \/ StartupFail
    \/ Signal
    \/ ProcessExit
    \/ \E s \in Slots : StartLifecycle(s)
    \/ \E s \in Slots, rc \in RC : CloneReturns(s, rc)
    \/ \E s \in Slots : CloneCancelled(s)
    \/ \E s \in Slots, rc \in RC : SetReturns(s, rc)
    \/ \E s \in Slots : SetCancelled(s)
    \/ \E s \in Slots, rc \in RC : VmTaskExits(s, rc)
    \/ \E s \in Slots, rc \in RC : IpAttempt(s, rc)
    \/ \E s \in Slots, rc \in RC : ScpReturns(s, rc)
    \/ \E s \in Slots, ok \in BOOLEAN, t \in Tokens : ExchangeAnswers(s, ok, t)
    \/ \E s \in Slots, ok \in BOOLEAN, t \in Tokens :
          RegistrationAnswers(s, ok, t)
    \/ \E s \in Slots, rc \in RC : AgentExits(s, rc)
    \/ \E s \in Slots : SessionCancelled(s)
    \/ \E s \in Slots : NurseryExit(s)
    \/ \E s \in Slots : CleanupTick(s)
    \/ \E s \in Slots, rc \in RC : DeleteReturns(s, rc)
    \/ \E s \in Slots : DeleteAbandoned(s)
    \/ \E s \in Slots : WakeUp(s)
    \/ \E s \in Slots : SleepCancelled(s)

Spec == Init /\ [][Next]_vars

\* What the scheduler, the kernel and the clock guarantee to slot s: a
\* cancelled task is woken at its checkpoint, a killed child process dies,
\* a joined nursery is left, and time passes during cleanup until the
\* deadline fires.  Nothing is assumed about a child process ever exiting
\* by itself, "tart delete" included.
CancelStep(s) ==
    \/ SlotCancelled(s) /\ StartLifecycle(s)
    \/ CloneCancelled(s)
    \/ SetCancelled(s)
    \/ SubtaskCancelled(s) /\ \E rc \in RC : VmTaskExits(s, rc)
    \/ SessionCancelled(s)
    \/ NurseryExit(s)
    \/ CleanupTick(s)
    \/ DeleteAbandoned(s)
    \/ SleepCancelled(s)

FairSpec ==
    /\ Spec
    /\ \A s \in Slots : WF_vars(CancelStep(s))
    /\ WF_vars(ProcessExit)

TypeOK ==
    /\ proc \in {"startup", "running", "failed", "terminated"}
    /\ signalled \in BOOLEAN /\ rootCancelled \in BOOLEAN
    /\ pc \in [Slots -> {"unstarted", "loop", "clone", "set", "nursery",
                         "cleanup", "sleep", "exited"}]
    /\ retries \in [Slots -> 0..MaxRetries]
    /\ vmt \in [Slots -> {"none", "run", "done"}]
    /\ sess \in [Slots -> {"none", "ip", "scp", "token1", "token2", "agent",
                           "done"}]
    /\ attempts \in [Slots -> 0..IpRetries]
    /\ clock \in [Slots -> 0..CleanupDeadline]
    /\ deletes \in [Slots -> 0..1]

\* ---- properties --------------------------------------------------------

Ended(s) == last[s] # "none"

\* C1: every VM a lifecycle has cloned is deleted exactly once by the time
\* the lifecycle has ended, however it ended.
C1_DeleteExactlyOnce ==
    \A s \in Slots : (Ended(s) /\ created[s]) => deletes[s] = 1

\* C2: "tart delete" never runs while the VM monitor or the execution
\* session of the same lifecycle is still running.
C2_DeleteAfterSubtasks ==
    \A s \in Slots : pc[s] = "cleanup" => (vmt[s] = "done" /\ sess[s] = "done")

C2_Witness ==
    \E s, u \in Slots :
        /\ pc[s] = "cleanup" /\ pend[s] = "cancel"
        /\ pc[u] = "cleanup" /\ pend[u] = "error"

\* C3: once either subtask has exited the nursery's scope is cancelled, so
\* the sibling can only exit; the scope is cancelled before cleanup begins.
C3_SiblingCancelled ==
    /\ [](\A s \in Slots :
            /\ (vmt[s] = "done" \/ sess[s] = "done") => inner[s]
            /\ pc[s] = "cleanup" => inner[s])
    /\ [][\A s \in Slots :
            inner[s] => /\ vmt'[s] \in {vmt[s], "done", "none"}
                        /\ sess'[s] \in {sess[s], "done", "none"}
                        /\ attempts'[s] \in {attempts[s], 0}]_vars

C3_Witness ==
    /\ ~rootCancelled
    /\ \E s, u \in Slots :
        /\ vmt[s] = "done" /\ sess[s] = "agent" /\ inner[s]
        /\ sess[u] = "done" /\ vmt[u] = "run" /\ inner[u]

\* C4: however the subtask phase ends the delete is issued, and once issued
\* only its own completion or the expiry of the deadline ends the cleanup;
\* a signal before or during cleanup changes neither.
C4_CleanupShielded ==
    [][\A s \in Slots :
        /\ (pc[s] = "nursery" /\ pc'[s] # "nursery")
              => (pc'[s] = "cleanup" /\ deletes'[s] = deletes[s] + 1)
        /\ (pc[s] = "cleanup" /\ pc'[s] # "cleanup")
              => (term'[s] \in {"returned", "failed"}
                  \/ clock[s] >= CleanupDeadline)
        /\ (pc[s] = "cleanup" /\ pc'[s] = "cleanup")
              => (deletes'[s] = deletes[s] /\ clock'[s] >= clock[s])]_vars

C4_Witness ==
    /\ rootCancelled
    /\ \E s, u \in Slots :
        /\ pc[s] = "cleanup" /\ pend[s] = "cancel" /\ clock[s] >= 1
        /\ pc[u] = "cleanup" /\ pend[u] = "none" /\ clock[u] >= 1

\* C5: the delay slept after the k-th failure in a row is 2^k, and after a
\* successful lifecycle the counter is 0.
C5_Backoff ==
    \A s \in Slots :
        /\ pc[s] = "sleep" => (fails[s] >= 1 /\ delay[s] = 2 ^ fails[s])
        /\ last[s] = "ok" => (retries[s] = 0 /\ fails[s] = 0)
        /\ retries[s] = fails[s]

C5_Witness ==
    \E s, u \in Slots :
        /\ pc[s] = "sleep" /\ fails[s] = 3 /\ delay[s] = 8
        /\ pc[u] = "sleep" /\ fails[u] = 1 /\ delay[u] = 2

\* C6: an error raised inside a lifecycle ends in a backoff of its slot;
\* without a signal no slot leaves its loop and the process keeps running.
C6_ErrorsCaught ==
    /\ \A s \in Slots :
          last[s] = "error" =>
              /\ retries[s] >= 1
              /\ ~signalled => pc[s] \in {"sleep", "loop"}
    /\ ~signalled =>
          /\ proc # "terminated"
          /\ ~rootCancelled
          /\ \A s \in Slots : pc[s] # "exited" /\ last[s] # "SystemExit"

C6_Witness ==
    /\ ~signalled
    /\ \E s, u \in Slots :
        /\ pc[s] = "sleep" /\ last[s] = "error" /\ ~created[s]
        /\ pc[u] = "sleep" /\ last[u] = "error" /\ pend[u] = "error"

\* C7: after the signal no slot spawns "tart clone" or begins a backoff
\* sleep, and a sleeping slot can only leave its loop.
C7_NoLifecycleAfterSignal ==
    [][signalled =>
        \A s \in Slots :
            /\ pc'[s] = "clone" => pc[s] = "clone"
            /\ pc'[s] = "sleep" => pc[s] = "sleep"
            /\ pc[s] = "sleep" => pc'[s] \in {"sleep", "exited"}
            /\ pc[s] = "exited" => pc'[s] = "exited"]_vars

C7_Witness ==
    /\ signalled
    /\ \E s, u \in Slots :
        /\ pc[s] = "exited" /\ pend[s] = "cancel" /\ last[s] = "error"
        /\ pc[u] = "exited" /\ delay[u] > 0

\* C8: the process terminates only after a signal and only once every slot
\* has left its lifecycle, cleanup included.
C8_ExitAfterSignalAndCleanup ==
    proc = "terminated" =>
        (signalled /\ \A s \in Slots : pc[s] = "exited")

C8_Witness ==
    /\ proc = "terminated"
    /\ \E s, u \in Slots :
        /\ pend[s] = "cancel" /\ deletes[s] = 1 /\ term[s] = "timeout"
        /\ pend[u] = "cancel" /\ deletes[u] = 1 /\ term[u] = "returned"

C10_NoTokenLogged ==
    \A s \in Slots : logged[s] = {}

\* C11: when the VM process or the agent process exits by itself, with any
\* status, that is no error: the sibling is cancelled, one delete follows,
\* and unless the delete fails runner returns, retries is 0 and the slot is
\* back at the top of its loop without a sleep.
C11_SubtaskExitIsSuccess ==
    /\ [](\A s \in Slots :
            first[s] \in {"vm", "vmEarly", "agent"} =>
                /\ exc[s] = "none"
                /\ pc[s] = "nursery" => inner[s]
                /\ pc[s] = "cleanup" => (pend[s] # "error" /\ deletes[s] = 1)
                /\ last[s] = "error" => term[s] = "failed")
    /\ [][\A s \in Slots :
            (/\ pc[s] = "cleanup" /\ pc'[s] # "cleanup"
             /\ first[s] \in {"vm", "vmEarly", "agent"}
             /\ pend[s] = "none" /\ term'[s] # "failed")
            => /\ last'[s] = "ok" /\ retries'[s] = 0 /\ pc'[s] = "loop"
               /\ deletes'[s] = 1]_vars

C11_Witness ==
    \E s, u \in Slots :
        /\ pc[s] = "loop" /\ last[s] = "ok" /\ first[s] = "vmEarly"
        /\ retries[s] = 0 /\ deletes[s] = 1
        /\ pc[u] = "loop" /\ last[u] = "ok" /\ first[u] = "agent"
        /\ retries[u] = 0 /\ deletes[u] = 1

InLifecycle(s) == pc[s] \in {"loop", "clone", "set", "nursery", "cleanup"}

\* C12: num_vms slot tasks exist; each runs at most one lifecycle at a
\* time, and until the signal every slot is in a lifecycle or in a backoff
\* sleep, so the lifecycles in progress number num_vms minus the sleepers.
C12_PoolSize ==
    /\ Cardinality(DOMAIN pc) = NumVms
    /\ \A s \in Slots :
          pc[s] \in {"loop", "clone", "set", "sleep"} =>
              (vmt[s] = "none" /\ sess[s] = "none")
    /\ (proc = "running" /\ ~signalled) =>
          /\ \A s \in Slots : InLifecycle(s) \/ pc[s] = "sleep"
          /\ Cardinality({s \in Slots : InLifecycle(s)})
                = NumVms - Cardinality({s \in Slots : pc[s] = "sleep"})

C12_Witness ==
    /\ proc = "running" /\ ~signalled
    /\ \E s, u \in Slots :
        /\ pc[s] = "sleep" /\ fails[s] = 2
        /\ pc[u] = "nursery" /\ sess[u] = "agent" /\ vmt[u] = "run"

\* C13: when tart cannot be run or the payload file is missing the process
\* exits with status 1 from startup_checks, before any slot task exists: no
\* lifecycle begins and nothing is cloned; once the pool runs the checks
\* are not made again.
C13_StartupFatal ==
    /\ [](/\ (~tartFound \/ ~payloadPresent) => proc \in {"startup", "failed"}
          /\ proc \in {"startup", "failed"} =>
                \A s \in Slots :
                    /\ pc[s] = "unstarted" /\ last[s] = "none"
                    /\ ~created[s] /\ vmt[s] = "none" /\ sess[s] = "none")
    /\ [][proc' = "failed" => proc \in {"startup", "failed"}]_vars

C13_Witness ==
    /\ proc = "failed"
    /\ tartFound /\ ~payloadPresent
    /\ \A s \in Slots : pc[s] = "unstarted"

\* Everything the model keeps for slot s.
SlotState(s) ==
    <<pc[s], retries[s], delay[s], vmt[s], sess[s], attempts[s], inner[s],
      exc[s], pend[s], clock[s], etok[s], rtok[s], created[s], deletes[s],
      term[s], last[s], fails[s], logged[s], first[s]>>

\* C14: a step of one slot (a failure, a retry, a backoff included) changes
\* nothing of any other slot, and only the signal cancels the pool.
C14_SlotsIndependent ==
    [][proc = "running" =>
        /\ \A s, u \in Slots :
              (s # u /\ SlotState(s)' # SlotState(s))
                  => SlotState(u)' = SlotState(u)
        /\ rootCancelled' # rootCancelled => (~signalled /\ signalled')]_vars

C14_Witness ==
    /\ ~signalled
    /\ \E s, u \in Slots :
        /\ pc[s] = "sleep" /\ retries[s] = 3 /\ last[s] = "error"
        /\ pc[u] = "cleanup" /\ retries[u] = 0 /\ pend[u] = "none"

\* C15: once the signal has been received the process terminates, wherever
\* each slot is at that moment and even if "tart delete" never returns.
C15_ShutdownTerminates == signalled ~> (proc = "terminated")

C15_Witness ==
    /\ signalled /\ proc = "terminated"
    /\ \E s, u \in Slots :
        /\ term[s] = "timeout" /\ pend[s] = "cancel" /\ first[s] = "cancel"
        /\ delay[u] > 0 /\ last[u] = "error"

\* C16: "tart ip" is run at most 4 times per session; when the 4th attempt
\* fails the session raises, nothing later in the session happens, and
\* after the delete the lifecycle counts as failed.
C16_AddressRetriesExhausted ==
    /\ [](\A s \in Slots :
            /\ attempts[s] < IpRetries
            /\ attempts[s] > 0 => sess[s] = "ip"
            /\ first[s] = "ip" =>
                  /\ sess[s] \in {"done", "none"}
                  /\ etok[s] = NoTok /\ rtok[s] = NoTok /\ logged[s] = {}
                  /\ pc[s] = "nursery" => (exc[s] = "error" /\ inner[s])
                  /\ pc[s] = "cleanup" => pend[s] \in {"error", "cancel"}
                  /\ Ended(s) => (last[s] \in {"error", "cancel"}
                                  /\ deletes[s] = 1))
    /\ [][\A s \in Slots :
            /\ (sess[s] = "ip" /\ sess'[s] = "done" /\ ~SubtaskCancelled(s))
                  => (attempts[s] = IpRetries - 1 /\ first'[s] = "ip")
            /\ (pc[s] = "cleanup" /\ pc'[s] # "cleanup" /\ first[s] = "ip"
                /\ pend[s] = "error")
                  => (last'[s] = "error" /\ retries'[s] = retries[s] + 1)]_vars

C16_Witness ==
    \E s \in Slots :
        /\ pc[s] = "sleep" /\ first[s] = "ip" /\ last[s] = "error"
        /\ deletes[s] = 1 /\ retries[s] = 1 /\ delay[s] = 2

\* C17: a session waits for the address, the copy, the two token requests
\* and the agent in this order; it moves on only from a step that ended
\* without error and uncancelled; the agent runs only with a registration
\* token obtained by this session; an error or a cancellation ends the
\* session at the step where it happens.
C17_StepOrder ==
    /\ [](\A s \in Slots :
            /\ sess[s] \in {"none", "ip", "scp", "token1", "token2"}
                  => rtok[s] = NoTok
            /\ sess[s] \in {"none", "ip", "scp", "token1"} => etok[s] = NoTok
            /\ sess[s] \in {"none", "ip", "scp"} => logged[s] = {}
            /\ sess[s] = "token2" => etok[s] \in Tokens
            /\ sess[s] = "agent" => (rtok[s] \in Tokens /\ exc[s] = "none")
            /\ exc[s] = "error" => sess[s] = "done")
    /\ [][\A s \in Slots :
            /\ sess'[s] # sess[s] =>
                 <<sess[s], sess'[s]>> \in
                    {<<"none", "ip">>, <<"ip", "scp">>, <<"scp", "token1">>,
                     <<"token1", "token2">>, <<"token2", "agent">>,
                     <<"ip", "done">>, <<"scp", "done">>,
                     <<"token1", "done">>, <<"token2", "done">>,
                     <<"agent", "done">>, <<"done", "none">>,
                     <<"none", "done">>}
            /\ (sess'[s] # sess[s]
                /\ sess'[s] \in {"scp", "token1", "token2", "agent"})
                  => (~SubtaskCancelled(s) /\ exc'[s] = "none")
            /\ (SubtaskCancelled(s) /\ sess'[s] # sess[s]
                /\ sess[s] \notin {"none", "done"})
                  => sess'[s] = "done"]_vars

C17_Witness ==
    \E s \in Slots :
        /\ sess[s] = "agent" /\ rtok[s] \in Tokens /\ attempts[s] = 0
        /\ pc[s] = "nursery" /\ exc[s] = "none"

\* ---- log_output --------------------------------------------------------

\* Bytes of an agent's output: an ASCII letter, the newline, and the lead
\* and continuation byte of one two-byte UTF-8 character.
Bytes == {"a", "nl", "c1", "c2"}

\* bytes is well-formed UTF-8 (each lead byte followed by its continuation).
RECURSIVE IsUtf8(_)
IsUtf8(bytes) ==
    IF bytes = <<>> THEN TRUE
    ELSE IF bytes[1] \in {"a", "nl"} THEN IsUtf8(Tail(bytes))
    ELSE /\ bytes[1] = "c1"
         /\ Len(bytes) >= 2
         /\ bytes[2] = "c2"
         /\ IsUtf8(Tail(Tail(bytes)))

\* The outputs an agent can produce.
Streams ==
    {b \in UNION {[1..n -> Bytes] : n \in 0..MaxStream} : IsUtf8(b)}

\* decoder.decode(b) of the incremental UTF-8 decoder on well-formed input:
\* the characters completed so far (out) and the bytes kept for the next
\* call (rest).
RECURSIVE Decode(_)
Decode(bytes) ==
    IF bytes = <<>> THEN [out |-> <<>>, rest |-> <<>>]
    ELSE IF bytes[1] \in {"a", "nl"}
    THEN LET d == Decode(Tail(bytes))
         IN  [out |-> <<bytes[1]>> \o d.out, rest |-> d.rest]
    ELSE IF Len(bytes) = 1 THEN [out |-> <<>>, rest |-> bytes]
    ELSE LET d == Decode(Tail(Tail(bytes)))
         IN  [out |-> <<"ch2">> \o d.out, rest |-> d.rest]

\* The characters chars as written on behalf of instance i.
Text(chars, i) == [k \in 1..Len(chars) |-> [c |-> chars[k], by |-> i]]

\* f"{runner_name}: "
Prefix(i) == [c |-> "prefix", by |-> i]

\* Index of the end of the first line of a non-empty text.
FirstEnd(text) ==
    IF \E k \in 1..Len(text) : text[k].c = "nl"
    THEN CHOOSE k \in 1..Len(text) :
            /\ text[k].c = "nl"
            /\ \A j \in 1..(k - 1) : text[j].c # "nl"
    ELSE Len(text)

\* str.splitlines(True): the lines of text, line ends kept.
RECURSIVE SplitLines(_)
SplitLines(text) ==
    IF text = <<>> THEN <<>>
    ELSE <<SubSeq(text, 1, FirstEnd(text))>>
            \o SplitLines(SubSeq(text, FirstEnd(text) + 1, Len(text)))

\* The default predicate of textwrap.indent: line.strip() is not empty.
Predicate(line) == \E k \in 1..Len(line) : line[k].c # "nl"

RECURSIVE Join(_)
Join(lines) ==
    IF lines = <<>> THEN <<>> ELSE Head(lines) \o Join(Tail(lines))

\* textwrap.indent(text, prefix)
Indent(text, i) ==
    LET ls == SplitLines(text)
    IN  Join([k \in 1..Len(ls) |->
                IF Predicate(ls[k]) THEN <<Prefix(i)>> \o ls[k] ELSE ls[k]])

\* print(data, flush=True): data followed by a newline.
LogWrite(data, i) == data \o <<[c |-> "nl", by |-> i]>>

\* The agents of the running instances have written their output.
LogInit ==
    /\ PoolInit
    /\ tartFound = TRUE
    /\ payloadPresent = TRUE
    /\ stream \in [Slots -> Streams]
    /\ pos = [i \in Slots |-> 0]
    /\ buf = [i \in Slots |-> <<>>]
    /\ sink = <<>>
    /\ NameIdle

\* One iteration of log_output's loop for instance i: a chunk of n bytes
\* arrives, is decoded, indented and logged.
LogOutputChunk(i, n) ==
    /\ pos[i] + n <= Len(stream[i])
    /\ LET b == SubSeq(stream[i], pos[i] + 1, pos[i] + n)
           d == Decode(buf[i] \o b)
       IN  /\ buf' = [buf EXCEPT ![i] = d.rest]
           /\ sink' = sink \o LogWrite(Indent(Text(d.out, i), i), i)
    /\ pos' = [pos EXCEPT ![i] = @ + n]
    /\ UNCHANGED <<stream, tartFound, payloadPresent, poolVars, nameVars>>

LogNext == \E i \in Slots, n \in 1..MaxStream : LogOutputChunk(i, n)

LogSpec == LogInit /\ [][LogNext]_vars

\* All output of all agents has been read.
AllRead == \A i \in Slots : pos[i] = Len(stream[i])

\* The lines of the sink, without their line ends, that instance i wrote.
SinkLines(i) ==
    LET ls == SplitLines(sink)
        mine == SelectSeq(ls, LAMBDA l : l[Len(l)].by = i)
    IN  [k \in 1..Len(mine) |-> SubSeq(mine[k], 1, Len(mine[k]) - 1)]

\* The lines of instance i's output, each behind the prefix of i.
PrefixedLines(i) ==
    LET ls == SplitLines(Text(Decode(stream[i]).out, i))
    IN  [k \in 1..Len(ls) |->
            <<Prefix(i)>> \o SelectSeq(ls[k], LAMBDA x : x.c # "nl")]

\* C18: once all output is read, the sink holds for every instance exactly
\* its output lines, each behind the instance's prefix, and no line of the
\* sink holds characters of two instances.
C18_LogLines ==
    AllRead =>
        /\ \A i \in Slots : SinkLines(i) = PrefixedLines(i)
        /\ \A l \in {SplitLines(sink)[k] : k \in 1..Len(SplitLines(sink))} :
              \A x \in 1..Len(l) : l[x].by = l[Len(l)].by

\* ---- VM names ----------------------------------------------------------

\* The slots are running and choose the names of their VMs.
NameInit ==
    /\ PoolInit
    /\ tartFound = TRUE
    /\ payloadPresent = TRUE
    /\ LogIdle
    /\ NameIdle

\* A lifecycle leaves provision_tart_vm or runner: runner_name goes out of
\* scope.
Forget(s) ==
    /\ runnerName' = [runnerName EXCEPT ![s] = NoName]
    /\ cmd' = [cmd EXCEPT ![s] = "none"]
    /\ shared' = [shared EXCEPT ![s] = FALSE]

\* provision_tart_vm builds runner_name from os.urandom(4) and starts
\* "tart clone".
ChooseName(s, n) ==
    /\ cmd[s] = "none"
    /\ runnerName' = [runnerName EXCEPT ![s] = n]
    /\ cmd' = [cmd EXCEPT ![s] = "clone"]
    /\ UNCHANGED <<store, shared>>
    /\ UNCHANGED <<tartFound, payloadPresent, poolVars, logVars>>

\* "tart clone <base_image> <runner_name>" exits with status rc; tart
\* either refuses a name that exists or replaces the VM of that name.
CloneExits(s, rc) ==
    /\ cmd[s] = "clone"
    /\ IF RunProcess(rc, TRUE) = "CalledProcessError"
       THEN Forget(s) /\ UNCHANGED store
       ELSE /\ store' = store \cup {runnerName[s]}
            /\ shared' = [shared EXCEPT ![s] = runnerName[s] \in store]
            /\ cmd' = [cmd EXCEPT ![s] = "set"]
            /\ UNCHANGED runnerName
    /\ UNCHANGED <<tartFound, payloadPresent, poolVars, logVars>>

\* "tart set" exits with status rc; on success runner starts "tart run"
\* and the session for runner_name.
SetExits(s, rc) ==
    /\ cmd[s] = "set"
    /\ IF RunProcess(rc, TRUE) = "CalledProcessError"
       THEN Forget(s)
       ELSE /\ cmd' = [cmd EXCEPT ![s] = "run"]
            /\ UNCHANGED <<runnerName, shared>>
    /\ UNCHANGED store
    /\ UNCHANGED <<tartFound, payloadPresent, poolVars, logVars>>

\* Both subtasks have ended; "tart delete <runner_name>" is started.
RunEnds(s) ==
    /\ cmd[s] = "run"
    /\ cmd' = [cmd EXCEPT ![s] = "delete"]
    /\ UNCHANGED <<runnerName, store, shared>>
    /\ UNCHANGED <<tartFound, payloadPresent, poolVars, logVars>>

\* "tart delete" exits with status rc, or is abandoned at the deadline
\* (removed = FALSE).
DeleteExits(s, rc, removed) ==
    /\ cmd[s] = "delete"
    /\ rc = 0 <=> removed
    /\ store' = IF removed THEN store \ {runnerName[s]} ELSE store
    /\ Forget(s)
    /\ UNCHANGED <<tartFound, payloadPresent, poolVars, logVars>>

NameNext ==
    \/ \E s \in Slots, n \in Names : ChooseName(s, n)
    \/ \E s \in Slots, rc \in RC : CloneExits(s, rc)
    \/ \E s \in Slots, rc \in RC : SetExits(s, rc)
    \/ \E s \in Slots : RunEnds(s)
    \/ \E s \in Slots, rc \in RC, removed \in BOOLEAN :
          DeleteExits(s, rc, removed)

NameSpec == NameInit /\ [][NameNext]_vars

\* Slot s works on a VM: its clone has succeeded and its lifecycle has not
\* ended.
Holds(s) == cmd[s] \in {"set", "run", "delete"}

\* C19: two lifecycles in progress never work on the same VM name, and a
\* lifecycle works only on a VM whose name did not exist before its own
\* clone.
C19_NoSharedVm ==
    \A s \in Slots :
        Holds(s) =>
            /\ ~shared[s]
            /\ \A u \in Slots \ {s} :
                  Holds(u) => runnerName[u] # runnerName[s]

\* C20: a "tart delete" that exits non-zero within the deadline makes the
\* lifecycle a failure whatever the subtasks did: retries is incremented
\* and, unless the pool is shutting down, the slot sleeps 2 ** retries;
\* a delete given up at the deadline leaves the outcome as it was.
C20_DeleteFailureCounts ==
    [][\A s \in Slots :
         /\ (pc[s] = "cleanup" /\ pc'[s] # "cleanup" /\ term'[s] = "failed")
               => /\ clock[s] <= CleanupDeadline
                  /\ last'[s] = "error"
                  /\ retries'[s] = retries[s] + 1
                  /\ fails'[s] = fails[s] + 1
                  /\ IF rootCancelled
                     THEN pc'[s] = "exited"
                     ELSE /\ pc'[s] = "sleep"
                          /\ delay'[s] = BackoffBase ^ (retries[s] + 1)
         /\ (pc[s] = "cleanup" /\ pc'[s] # "cleanup" /\ term'[s] = "timeout")
               => /\ last'[s] = (IF pend[s] = "none" THEN "ok" ELSE pend[s])
                  /\ fails'[s] = (IF pend[s] = "none" THEN 0
                                  ELSE IF pend[s] = "error"
                                       THEN fails[s] + 1 ELSE fails[s])]_vars

C20_Witness ==
    \E s \in Slots :
        /\ pc[s] = "sleep" /\ term[s] = "failed" /\ pend[s] = "none"
        /\ first[s] \in {"vm", "agent"}
        /\ last[s] = "error" /\ retries[s] = 1 /\ delay[s] = 2

====
